---- MODULE Spec2Model ----
(***************************************************************************)
(* A model of three parts of the genome browser front end:                   *)
(*   - GenomeModelService: the per-chromosome cache of 3D model details    *)
(*     and the asynchronous loads that fill it;                            *)
(*   - TrackContainer: the handlers that select, deselect and reorder the  *)
(*     tracks the parent passes in props.tracks;                           *)
(*   - GenomeNavigator: the view region and the calls that zoom and set it.*)
(***************************************************************************)
EXTENDS Integers, Sequences, FiniteSets, TLC

VARIABLES
    loadedChromosomes,  \* GenomeModelService.loadedChromosomes: chr -> details | undefined
    calls,              \* the loadChromosomeAsync calls made so far, in call order, each
                        \* with the length the log had when it was made
    log,                \* the console.log lines of loadChromosomeAsync, tagged with the call
    nextRef,            \* number of details objects allocated so far (object identity)
    ret,                \* what the last hasChromosome / loadChromosome call returned
    tracks,             \* TrackContainer props.tracks, as the parent last rendered it
    selectedTool,       \* TrackContainer state.selectedTool
    contextMenuEvent,   \* TrackContainer state.contextMenuEvent
    last,               \* what the last TrackContainer handler was given and did
    prev,               \* under SpecClicks, what last was before the last track click
    viewRegion,         \* GenomeNavigator state.viewRegion
    navLast,            \* what the last GenomeNavigator call was given and did
    navPrev             \* under SpecZoom, what navLast was before the last zoom

vars == <<loadedChromosomes, calls, log, nextRef, ret,
          tracks, selectedTool, contextMenuEvent, last, prev,
          viewRegion, navLast, navPrev>>

serviceVars == <<loadedChromosomes, calls, log, nextRef, ret>>
containerVars == <<tracks, selectedTool, contextMenuEvent, last, prev>>
navigatorVars == <<viewRegion, navLast, navPrev>>

-----------------------------------------------------------------------------
(* Bounds *)

MaxCalls == 3       \* loadChromosomeAsync calls in one behaviour
MaxTracks == 3      \* tracks in props.tracks
MaxBase == 16       \* largest base number a view region reaches

\* Chromosome ids the callers ask for (names of chromosomes; none is the name
\* of a property every JavaScript object inherits).
Chrs == {"chr1", "chr21"}

-----------------------------------------------------------------------------
(* GenomeModelService *)

\* The value of a property that is not there.
Undefined == [undefined |-> TRUE]

\* JSON documents the server may answer with for /models/{chr}.json.
DocA == [genomicCoords |-> << <<0, 10>>, <<10, 20>> >>,
         xyzPositions  |-> << <<0, 0, 0>>, <<10, 5, 2>> >>]
DocB == [genomicCoords |-> << <<5, 5>> >>,
         xyzPositions  |-> << <<1, 2, 3>>, <<3, 2, 7>>, <<2, 4, 5>> >>]
DocNoCoords == [genomicCoords |-> << >>,
                xyzPositions  |-> << <<0, 0, 0>>, <<1, 1, 1>> >>]
Docs == {DocA, DocB, DocNoCoords}

MinOf(S) == CHOOSE m \in S : \A n \in S : m <= n
MaxOf(S) == CHOOSE m \in S : \A n \in S : m >= n

\* THREE.Box3 after expandByPoint of every position.
Box3Of(positions) ==
    LET axis(k) == {positions[i][k] : i \in 1..Len(positions)}
    IN  [min |-> <<MinOf(axis(1)), MinOf(axis(2)), MinOf(axis(3))>>,
         max |-> <<MaxOf(axis(1)), MaxOf(axis(2)), MaxOf(axis(3))>>]

\* d3.scaleLinear().domain([lo, hi]).range([0, len / largestLen]); the upper
\* end of the range is kept as the fraction <<len, largestLen>>.
ScaleLinear(lo, hi, len, largestLen) ==
    [domain |-> <<lo, hi>>, range |-> <<0, <<len, largestLen>> >>]

\* genomicCoords[0][0] of an empty list is a TypeError.
ComputeThrows(data) == Len(data.genomicCoords) = 0

\* The details object loadChromosomeAsync builds from the decoded document.
ComputeDetails(data, ref) ==
    LET genomicCoords == data.genomicCoords
        positions == data.xyzPositions
        boundingBox == Box3Of(positions)
        interval == [chr   |-> "chr21",
                     start |-> genomicCoords[1][1],
                     end   |-> genomicCoords[Len(genomicCoords)][2]]
        xLen == boundingBox.max[1] - boundingBox.min[1]
        yLen == boundingBox.max[2] - boundingBox.min[2]
        zLen == boundingBox.max[3] - boundingBox.min[3]
        largestLen == MaxOf({xLen, yLen, zLen})
    IN  [ref |-> ref,
         boundingBox |-> boundingBox,
         x |-> ScaleLinear(boundingBox.min[1], boundingBox.max[1], xLen, largestLen),
         y |-> ScaleLinear(boundingBox.min[2], boundingBox.max[2], yLen, largestLen),
         z |-> ScaleLinear(boundingBox.min[3], boundingBox.max[3], zLen, largestLen),
         positions |-> positions,
         genomicCoords |-> genomicCoords,
         interval |-> interval]

\* Mutant of StoreDetails: the first entry written for a chromosome is kept.
StoreDetailsIfAbsent(cache, chr, details) ==
    IF cache[chr] = Undefined THEN [cache EXCEPT ![chr] = details] ELSE cache

\* Mutant of StoreDetails: the entry is filed under the chromosome its
\* interval names.
StoreDetailsByInterval(cache, chr, details) ==
    [cache EXCEPT ![details.interval.chr] = details]

\* this.loadedChromosomes[chr] = {...}
StoreDetails(cache, chr, details) == [cache EXCEPT ![chr] = details]

\* hasChromosome(chr): !!this.loadedChromosomes[chr]
hasChromosome(cache, chr) == cache[chr] # Undefined

\* Mutant of loadChromosome: a missing entry is returned as it is, without
\* an error.
loadChromosomeNoThrow(cache, chr) ==
    [threw |-> FALSE, details |-> cache[chr], error |-> << >>]

\* loadChromosome(chr): the cached details, or an Error carrying the id.
loadChromosome(cache, chr) ==
    IF cache[chr] # Undefined
    THEN [threw |-> FALSE, details |-> cache[chr], error |-> << >>]
    ELSE [threw |-> TRUE, details |-> Undefined,
          error |-> <<"chromosome", chr, "not loaded">>]

NoRet == [op |-> "none", chr |-> "", has |-> FALSE, threw |-> FALSE,
          details |-> Undefined, error |-> << >>]

\* A caller asks hasChromosome(chr).
HasChromosome(chr) ==
    /\ ret' = [NoRet EXCEPT !.op = "hasChromosome", !.chr = chr,
                            !.has = hasChromosome(loadedChromosomes, chr)]
    /\ UNCHANGED <<loadedChromosomes, calls, log, nextRef>>
    /\ UNCHANGED containerVars
    /\ UNCHANGED navigatorVars

\* A caller asks loadChromosome(chr).
LoadChromosome(chr) ==
    /\ LET r == loadChromosome(loadedChromosomes, chr)
       IN  ret' = [NoRet EXCEPT !.op = "loadChromosome", !.chr = chr,
                                !.threw = r.threw, !.details = r.details,
                                !.error = r.error]
    /\ UNCHANGED <<loadedChromosomes, calls, log, nextRef>>
    /\ UNCHANGED containerVars
    /\ UNCHANGED navigatorVars

\* loadChromosomeAsync(chr) up to its first await: the cache check and, on a
\* miss, the fetch request.
LoadChromosomeAsyncStart(chr) ==
    /\ Len(calls) < MaxCalls
    /\ LET details == loadedChromosomes[chr]
           id == Len(calls) + 1
       IN  IF details # Undefined
           THEN /\ calls' = Append(calls, [chr |-> chr, pc |-> "resolved",
                                           fetched |-> FALSE, result |-> details,
                                           startedAt |-> Len(log)])
                /\ log' = log
           ELSE /\ calls' = Append(calls, [chr |-> chr, pc |-> "fetch",
                                           fetched |-> TRUE, result |-> Undefined,
                                           startedAt |-> Len(log)])
                /\ log' = Append(log, [msg |-> "fetching chr", chr |-> chr, call |-> id])
    /\ UNCHANGED <<loadedChromosomes, nextRef, ret>>
    /\ UNCHANGED containerVars
    /\ UNCHANGED navigatorVars

\* Mutant of FetchSettles: a failed fetch leaves an empty entry in the cache.
FetchSettlesCachesFailure(c, ok) ==
    /\ c \in 1..Len(calls)
    /\ calls[c].pc = "fetch"
    /\ calls' = [calls EXCEPT ![c].pc = IF ok THEN "json" ELSE "rejected"]
    /\ loadedChromosomes' =
          IF ok THEN loadedChromosomes
                ELSE [loadedChromosomes EXCEPT ![calls[c].chr] = [ref |-> 0]]
    /\ UNCHANGED <<log, nextRef, ret>>
    /\ UNCHANGED containerVars
    /\ UNCHANGED navigatorVars

\* await fetch(...) settles for call c.
FetchSettles(c, ok) ==
    /\ c \in 1..Len(calls)
    /\ calls[c].pc = "fetch"
    /\ calls' = [calls EXCEPT ![c].pc = IF ok THEN "json" ELSE "rejected"]
    /\ UNCHANGED <<loadedChromosomes, log, nextRef, ret>>
    /\ UNCHANGED containerVars
    /\ UNCHANGED navigatorVars

\* await response.json() fails for call c.
JsonFails(c) ==
    /\ c \in 1..Len(calls)
    /\ calls[c].pc = "json"
    /\ calls' = [calls EXCEPT ![c].pc = "rejected"]
    /\ UNCHANGED <<loadedChromosomes, log, nextRef, ret>>
    /\ UNCHANGED containerVars
    /\ UNCHANGED navigatorVars

\* await response.json() yields data for call c, and the rest of
\* loadChromosomeAsync runs to its return (or to the TypeError).
JsonSettles(c, data) ==
    /\ c \in 1..Len(calls)
    /\ calls[c].pc = "json"
    /\ IF ComputeThrows(data)
       THEN /\ calls' = [calls EXCEPT ![c].pc = "rejected"]
            /\ UNCHANGED <<loadedChromosomes, log, nextRef>>
       ELSE LET chr == calls[c].chr
                details == ComputeDetails(data, nextRef + 1)
                cache == StoreDetails(loadedChromosomes, chr, details)
            IN  /\ loadedChromosomes' = cache
                /\ nextRef' = nextRef + 1
                /\ log' = Append(log, [msg |-> "done fetching", chr |-> chr, call |-> c])
                /\ calls' = [calls EXCEPT ![c].pc = "resolved",
                                          ![c].result = cache[chr]]
    /\ UNCHANGED ret
    /\ UNCHANGED containerVars
    /\ UNCHANGED navigatorVars

-----------------------------------------------------------------------------
(* TrackContainer *)

\* const tools = {DRAG: 0, ZOOM: 1, REORDER: 2}
DRAG == 0
ZOOM == 1
REORDER == 2
Tools == {DRAG, ZOOM, REORDER}

\* MouseButtons.LEFT, and the values MouseEvent.button takes on a click or
\* contextmenu event: the main button and the secondary button.
LEFT == 0
Buttons == {LEFT, 2}
Events == [button : Buttons, ctrlKey : BOOLEAN]

\* The objects a handler works on.  objs[r] is the TrackModel at address r,
\* arrs[a] the array at address a (a sequence of TrackModel addresses), and
\* props the address of the array passed as props.tracks.  Array indices are
\* 1-based here: index i stands for the code's index i - 1.
Render(ts) ==
    [objs |-> ts, arrs |-> << [i \in 1..Len(ts) |-> i] >>, props |-> 1]

\* The TrackModel values of array a.
Values(H, a) == [i \in 1..Len(H.arrs[a]) |-> H.objs[H.arrs[a][i]]]

\* array.slice(): a new array with the same elements; its address is
\* Len(arrs) of the result.
slice(H, a) == [H EXCEPT !.arrs = Append(@, H.arrs[a])]

\* track.clone(): a new TrackModel with the same contents; its address is
\* Len(objs) of the result.
clone(H, r) == [H EXCEPT !.objs = Append(@, H.objs[r])]

\* Mutant of toggleOneTrack: the flag is flipped on the descriptor itself.
toggleOneTrackInPlace(H, a, index) ==
    LET r == H.arrs[a][index]
    IN  [H EXCEPT !.objs[r].isSelected = ~H.objs[r].isSelected]

\* Mutant of toggleOneTrack: the clone is selected instead of toggled.
toggleOneTrackSelects(H, a, index) ==
    LET H1 == clone(H, H.arrs[a][index])
        r == Len(H1.objs)
    IN  [H1 EXCEPT !.arrs[a][index] = r, !.objs[r].isSelected = TRUE]

\* toggleOneTrack(tracks, index)
toggleOneTrack(H, a, index) ==
    LET H1 == clone(H, H.arrs[a][index])
        r == Len(H1.objs)
    IN  [H1 EXCEPT !.arrs[a][index] = r,
                   !.objs[r].isSelected = ~H1.objs[r].isSelected]

\* The map callback of deselectAllTracks, applied from position i on; acc is
\* the array built so far.
RECURSIVE deselectFrom(_, _, _)
deselectFrom(H, i, acc) ==
    IF i > Len(H.arrs[H.props])
    THEN [H EXCEPT !.arrs = Append(@, acc)]
    ELSE LET r == H.arrs[H.props][i]
         IN  IF H.objs[r].isSelected
             THEN LET H1 == clone(H, r)
                      c == Len(H1.objs)
                  IN  deselectFrom([H1 EXCEPT !.objs[c].isSelected = FALSE],
                                   i + 1, Append(acc, c))
             ELSE deselectFrom(H, i + 1, Append(acc, r))

\* Mutant of deselectAllTracks: the map starts at the second track.
deselectAllButFirst(H) ==
    IF Len(H.arrs[H.props]) = 0
    THEN deselectFrom(H, 1, << >>)
    ELSE deselectFrom(H, 2, << H.arrs[H.props][1] >>)

\* deselectAllTracks(): the address of the new array is Len(arrs) of the result.
deselectAllTracks(H) == deselectFrom(H, 1, << >>)

\* What a handler did: the objects as it left them, and whether and with
\* which array it called props.onTracksChanged.
Requested(H, a) == [heap |-> H, called |-> TRUE, arg |-> a]
NoRequest(H) == [heap |-> H, called |-> FALSE, arg |-> 0]

RemoveAt(s, i) == SubSeq(s, 1, i - 1) \o SubSeq(s, i + 1, Len(s))
InsertAt(s, i, x) == SubSeq(s, 1, i - 1) \o <<x>> \o SubSeq(s, i, Len(s))

\* Mutant of requestTrackReorder: the two tracks change places.
requestTrackSwap(H, fromIndex, toIndex) ==
    LET H1 == slice(H, H.props)
        newOrder == Len(H1.arrs)
        old == H1.arrs[newOrder]
    IN  Requested([H1 EXCEPT !.arrs[newOrder] =
                       [old EXCEPT ![fromIndex] = old[toIndex],
                                   ![toIndex] = old[fromIndex]]],
                  newOrder)

\* requestTrackReorder(fromIndex, toIndex)
requestTrackReorder(H, fromIndex, toIndex) ==
    LET H1 == slice(H, H.props)
        newOrder == Len(H1.arrs)
        moved == H1.arrs[newOrder][fromIndex]
        spliced == RemoveAt(H1.arrs[newOrder], fromIndex)
    IN  Requested([H1 EXCEPT !.arrs[newOrder] = InsertAt(spliced, toIndex, moved)],
                  newOrder)

\* Mutant of trackClicked: the control key is not asked for.
trackClickedAnyKey(H, event, index) ==
    IF event.button = LEFT
    THEN LET H1 == slice(H, H.props)
             nextTracks == Len(H1.arrs)
         IN  Requested(toggleOneTrack(H1, nextTracks, index), nextTracks)
    ELSE NoRequest(H)

\* trackClicked(event, index)
trackClicked(H, event, index) ==
    IF event.button = LEFT /\ event.ctrlKey
    THEN LET H1 == slice(H, H.props)
             nextTracks == Len(H1.arrs)
         IN  Requested(toggleOneTrack(H1, nextTracks, index), nextTracks)
    ELSE NoRequest(H)

\* Mutant of handleContextMenuEvent: the clicked track is selected without
\* deselecting the others.
handleContextMenuEventKeepsOthers(H, event, index) ==
    IF event.ctrlKey
    THEN trackClicked(H, event, index)
    ELSE IF ~H.objs[H.arrs[H.props][index]].isSelected
         THEN LET H1 == slice(H, H.props)
                  nextTracks == Len(H1.arrs)
              IN  Requested(toggleOneTrack(H1, nextTracks, index), nextTracks)
         ELSE NoRequest(H)

\* handleContextMenuEvent(event, index)
handleContextMenuEvent(H, event, index) ==
    IF event.ctrlKey
    THEN trackClicked(H, event, index)
    ELSE IF ~H.objs[H.arrs[H.props][index]].isSelected
         THEN LET H1 == deselectAllTracks(H)
                  nextTracks == Len(H1.arrs)
              IN  Requested(toggleOneTrack(H1, nextTracks, index), nextTracks)
         ELSE NoRequest(H)

\* handleOutsideClick(event)
handleOutsideClick(H) ==
    IF \E i \in 1..Len(H.arrs[H.props]) : H.objs[H.arrs[H.props][i]].isSelected
    THEN LET H1 == deselectAllTracks(H)
         IN  Requested(H1, Len(H1.arrs))
    ELSE NoRequest(H)

\* The parent's onTracksChanged: it renders the container again with the
\* collection it was handed.
onTracksChanged(out) ==
    IF out.called THEN Values(out.heap, out.arg)
                  ELSE Values(out.heap, out.heap.props)

NoEvent == [button |-> LEFT, ctrlKey |-> FALSE]

NoLast == [handler |-> "none", index |-> 0, toIndex |-> 0, event |-> NoEvent,
           before |-> << >>, called |-> FALSE, arg |-> << >>,
           argFrom |-> << >>, newArray |-> FALSE, intact |-> TRUE]

\* What is seen of one run of a handler on the objects H0 with outcome out:
\*   before   props.tracks when the handler was called
\*   arg      the collection handed to onTracksChanged
\*   argFrom  for each element of arg, the position in props.tracks of the
\*            very same object, or 0 when the element is a new object
\*   newArray the array handed over is not the props.tracks array
\*   intact   the props.tracks array and every object that existed before the
\*            handler ran are as they were
Observed(handler, index, toIndex, event, H0, out) ==
    LET H1 == out.heap
        old == H0.arrs[H0.props]
        elems == IF out.called THEN H1.arrs[out.arg] ELSE << >>
        posOf(r) == IF \E k \in 1..Len(old) : old[k] = r
                    THEN CHOOSE k \in 1..Len(old) : old[k] = r
                    ELSE 0
    IN  [handler |-> handler, index |-> index, toIndex |-> toIndex,
         event |-> event,
         before |-> Values(H0, H0.props),
         called |-> out.called,
         arg |-> IF out.called THEN Values(H1, out.arg) ELSE << >>,
         argFrom |-> [j \in 1..Len(elems) |-> posOf(elems[j])],
         newArray |-> out.called /\ out.arg # H0.props,
         intact |-> /\ SubSeq(H1.objs, 1, Len(H0.objs)) = H0.objs
                    /\ H1.arrs[H0.props] = old]

\* A handler ran with outcome out: the parent applies the request, and the
\* run is recorded.
Handled(handler, index, toIndex, event, out) ==
    /\ tracks' = onTracksChanged(out)
    /\ last' = Observed(handler, index, toIndex, event, Render(tracks), out)
    /\ UNCHANGED <<selectedTool, contextMenuEvent>>
    /\ UNCHANGED serviceVars
    /\ UNCHANGED navigatorVars

\* A click on track index arrives at trackClicked.
TrackClicked(event, index) ==
    /\ index \in 1..Len(tracks)
    /\ Handled("trackClicked", index, 0, event,
               trackClicked(Render(tracks), event, index))

\* A contextmenu event on track index arrives at handleContextMenuEvent.
HandleContextMenuEvent(event, index) ==
    /\ index \in 1..Len(tracks)
    /\ Handled("handleContextMenuEvent", index, 0, event,
               handleContextMenuEvent(Render(tracks), event, index))

\* A click outside the tracks arrives at handleOutsideClick.
HandleOutsideClick ==
    Handled("handleOutsideClick", 0, 0, NoEvent, handleOutsideClick(Render(tracks)))

\* The reorder sub-container, rendered while the reorder tool is selected,
\* reports a moved track.
RequestTrackReorder(fromIndex, toIndex) ==
    /\ selectedTool = REORDER
    /\ fromIndex \in 1..Len(tracks)
    /\ toIndex \in 1..Len(tracks)
    /\ Handled("requestTrackReorder", fromIndex, toIndex, NoEvent,
               requestTrackReorder(Render(tracks), fromIndex, toIndex))

\* Mutant of SelectTool: changing the tool also drops the selection.
SelectToolDeselects(tool) ==
    /\ selectedTool' = tool
    /\ tracks' = [i \in 1..Len(tracks) |-> [tracks[i] EXCEPT !.isSelected = FALSE]]
    /\ last' = [NoLast EXCEPT !.handler = "selectTool", !.before = tracks]
    /\ UNCHANGED contextMenuEvent
    /\ UNCHANGED serviceVars
    /\ UNCHANGED navigatorVars

\* A tool button is pressed: this.setState({selectedTool: tool})
SelectTool(tool) ==
    /\ selectedTool' = tool
    /\ last' = [NoLast EXCEPT !.handler = "selectTool", !.before = tracks]
    /\ UNCHANGED <<tracks, contextMenuEvent>>
    /\ UNCHANGED serviceVars
    /\ UNCHANGED navigatorVars

-----------------------------------------------------------------------------
(* GenomeNavigator *)

\* Numbers are fractions <<n, d>> in lowest terms, d > 0: zooming multiplies
\* a width by a factor such as 1/2, and no rounding is applied.
RECURSIVE GCD(_, _)
GCD(a, b) == IF b = 0 THEN a ELSE GCD(b, a % b)

Rat(n, d) ==
    LET g == GCD(IF n < 0 THEN -n ELSE n, d)
    IN  <<n \div g, d \div g>>

Whole(n) == <<n, 1>>
RAdd(a, b) == Rat(a[1] * b[2] + b[1] * a[2], a[2] * b[2])
RSub(a, b) == Rat(a[1] * b[2] - b[1] * a[2], a[2] * b[2])
RMul(a, b) == Rat(a[1] * b[1], a[2] * b[2])
RDiv(a, b) == Rat(a[1] * b[2], a[2] * b[1])
RLess(a, b) == a[1] * b[2] < b[1] * a[2]
RLeq(a, b) == a[1] * b[2] <= b[1] * a[2]

\* MIN_VIEW_REGION_SIZE of AppState.
MIN_VIEW_REGION_SIZE == 5

\* The navigation contexts the parent may pass in props.selectedRegion.
NavContexts == {[name |-> "genomeA", totalBases |-> MaxBase],
                [name |-> "genomeB", totalBases |-> MaxBase - 4]}

\* new DisplayedRegionModel(navContext): the whole context.
NewDisplayedRegionModel(navContext) ==
    [navContext |-> navContext, start |-> Whole(0),
     end |-> Whole(navContext.totalBases)]

\* DisplayedRegionModel.getWidth()
getWidth(region) == RSub(region.end, region.start)

\* DisplayedRegionModel.clone()
cloneRegion(region) == region

\* DisplayedRegionModel.setRegion(newStart, newEnd)
setRegion(region, newStart, newEnd) ==
    [region EXCEPT !.start = newStart, !.end = newEnd]

\* zoom's focusPoint argument when the caller gives none.
NoFocus == [given |-> FALSE, at |-> Whole(0)]
Focus(at) == [given |-> TRUE, at |-> at]

\* DisplayedRegionModel.zoom(amount, focusPoint): the width is multiplied by
\* amount and the point at fraction focusPoint of the region (its middle when
\* none is given) stays where it is.
zoomRegion(region, amount, focusPoint) ==
    LET focal == IF focusPoint.given THEN focusPoint.at ELSE Rat(1, 2)
        width == getWidth(region)
        newWidth == RMul(width, amount)
        newStart == RAdd(region.start, RMul(focal, RSub(width, newWidth)))
    IN  [region EXCEPT !.start = newStart, !.end = RAdd(newStart, newWidth)]

\* regionCopy[methodName].apply(regionCopy, args)
ApplyMethod(region, methodName, args) ==
    IF methodName = "zoom"
    THEN zoomRegion(region, args[1], args[2])
    ELSE setRegion(region, args[1], args[2])

\* Mutant of setModelState: a result exactly MIN_VIEW_REGION_SIZE wide is
\* discarded too.
setModelStateStrict(region, methodName, args) ==
    LET regionCopy == ApplyMethod(cloneRegion(region), methodName, args)
    IN  IF RLeq(getWidth(regionCopy), Whole(MIN_VIEW_REGION_SIZE))
        THEN region
        ELSE regionCopy

\* Mutant of setModelState: a result that is too narrow is widened to
\* MIN_VIEW_REGION_SIZE and stored.
setModelStateClamps(region, methodName, args) ==
    LET regionCopy == ApplyMethod(cloneRegion(region), methodName, args)
    IN  IF RLess(getWidth(regionCopy), Whole(MIN_VIEW_REGION_SIZE))
        THEN [regionCopy EXCEPT
                 !.end = RAdd(regionCopy.start, Whole(MIN_VIEW_REGION_SIZE))]
        ELSE regionCopy

\* _setModelState(methodName, args): the view region of the state after it.
setModelState(region, methodName, args) ==
    LET regionCopy == ApplyMethod(cloneRegion(region), methodName, args)
    IN  IF RLess(getWidth(regionCopy), Whole(MIN_VIEW_REGION_SIZE))
        THEN region
        ELSE regionCopy

\* zoom(amount, focusPoint)
zoom(region, amount, focusPoint) ==
    setModelState(region, "zoom", <<amount, focusPoint>>)

\* setNewView(newStart, newEnd)
setNewView(region, newStart, newEnd) ==
    setModelState(region, "setRegion", <<newStart, newEnd>>)

\* zoomSliderDragged(event), targetRegionSize being Math.exp(event.target.value)
zoomSliderDragged(region, targetRegionSize) ==
    LET proportion == RDiv(targetRegionSize, getWidth(region))
    IN  setModelState(region, "zoom", <<proportion, NoFocus>>)

\* The region stays among the base numbers the model follows.
InBounds(region) ==
    RLeq(Whole(0), region.start) /\ RLeq(region.end, Whole(MaxBase))

NoNavLast == [op |-> "none", args |-> << >>,
              before |-> NewDisplayedRegionModel([name |-> "genomeA",
                                                  totalBases |-> MaxBase]),
              asked |-> NewDisplayedRegionModel([name |-> "genomeA",
                                                 totalBases |-> MaxBase])]

\* A call op(args) that asked the model for the region asked was made on the
\* state with the view region before, and left the view region after.
Navigated(op, args, asked, after) ==
    /\ InBounds(asked)
    /\ viewRegion' = after
    /\ navLast' = [op |-> op, args |-> args, before |-> viewRegion, asked |-> asked]
    /\ UNCHANGED serviceVars
    /\ UNCHANGED containerVars

\* Amounts the zoom buttons and the main pane zoom by, and the points they
\* zoom about.
Factors == {Rat(1, 2), Rat(2, 1), Rat(1, 4), Rat(4, 1)}
FocusPoints == {NoFocus, Focus(Whole(0)), Focus(Whole(1))}

\* Base numbers the main pane asks a new view for, and sizes the slider asks for.
Bases == {0, 3, 7, 8, MaxBase}
TargetSizes == {MIN_VIEW_REGION_SIZE - 1, MIN_VIEW_REGION_SIZE, 6, MaxBase - 3}

\* The zoom buttons or the main pane call zoom(amount, focusPoint).
Zoom(amount, focusPoint) ==
    Navigated("zoom", <<amount, focusPoint>>,
              zoomRegion(viewRegion, amount, focusPoint),
              zoom(viewRegion, amount, focusPoint))

\* The main pane calls setNewView(newStart, newEnd).
SetNewView(newStart, newEnd) ==
    /\ newStart <= newEnd
    /\ Navigated("setNewView", <<Whole(newStart), Whole(newEnd)>>,
                 setRegion(viewRegion, Whole(newStart), Whole(newEnd)),
                 setNewView(viewRegion, Whole(newStart), Whole(newEnd)))

\* The zoom slider is dragged to the logarithm of targetRegionSize.
ZoomSliderDragged(targetRegionSize) ==
    Navigated("zoomSliderDragged", <<Whole(targetRegionSize)>>,
              zoomRegion(viewRegion,
                         RDiv(Whole(targetRegionSize), getWidth(viewRegion)), NoFocus),
              zoomSliderDragged(viewRegion, Whole(targetRegionSize)))

\* componentWillReceiveProps(nextProps): another navigation context resets
\* the view region.
ComponentWillReceiveProps(nextNavContext) ==
    LET thisNavContext == viewRegion.navContext
        next == IF thisNavContext # nextNavContext
                THEN NewDisplayedRegionModel(nextNavContext)
                ELSE viewRegion
    IN  Navigated("componentWillReceiveProps", <<nextNavContext>>, next, next)

-----------------------------------------------------------------------------
(* Initial states *)

\* The collections the parent may pass first: up to MaxTracks tracks with
\* distinct ids, any of them selected.
Collections ==
    UNION {[1..n -> BOOLEAN] : n \in 0..MaxTracks}

\* The service as constructed and the container as first rendered.
Init ==
    /\ loadedChromosomes = [chr \in Chrs |-> Undefined]
    /\ calls = << >>
    /\ log = << >>
    /\ nextRef = 0
    /\ ret = NoRet
    /\ \E sel \in Collections :
          tracks = [i \in 1..Len(sel) |-> [id |-> i, isSelected |-> sel[i]]]
    /\ selectedTool = DRAG
    /\ contextMenuEvent = "null"
    /\ last = NoLast
    /\ prev = NoLast
    /\ viewRegion = NoNavLast.before
    /\ navLast = NoNavLast
    /\ navPrev = NoNavLast

\* The service as constructed, beside a container with the default props.
InitService ==
    /\ loadedChromosomes = [chr \in Chrs |-> Undefined]
    /\ calls = << >>
    /\ log = << >>
    /\ nextRef = 0
    /\ ret = NoRet
    /\ tracks = << >>
    /\ selectedTool = DRAG
    /\ contextMenuEvent = "null"
    /\ last = NoLast
    /\ prev = NoLast
    /\ viewRegion = NoNavLast.before
    /\ navLast = NoNavLast
    /\ navPrev = NoNavLast

\* The navigator as constructed on a navigation context, or with a view the
\* user has already set, beside an idle service and container.
InitNavigator ==
    /\ loadedChromosomes = [chr \in Chrs |-> Undefined]
    /\ calls = << >>
    /\ log = << >>
    /\ nextRef = 0
    /\ ret = NoRet
    /\ tracks = << >>
    /\ selectedTool = DRAG
    /\ contextMenuEvent = "null"
    /\ last = NoLast
    /\ prev = NoLast
    /\ \E navContext \in NavContexts, s, e \in Bases :
          /\ e <= navContext.totalBases
          /\ e - s >= MIN_VIEW_REGION_SIZE
          /\ viewRegion = setRegion(NewDisplayedRegionModel(navContext),
                                    Whole(s), Whole(e))
    /\ navLast = NoNavLast
    /\ navPrev = NoNavLast

-----------------------------------------------------------------------------
(* Specifications *)

NextService ==
    \/ \E chr \in Chrs : HasChromosome(chr)
    \/ \E chr \in Chrs : LoadChromosome(chr)
    \/ \E chr \in Chrs : LoadChromosomeAsyncStart(chr)
    \/ \E c \in 1..MaxCalls, ok \in BOOLEAN : FetchSettles(c, ok)
    \/ \E c \in 1..MaxCalls : JsonFails(c)
    \/ \E c \in 1..MaxCalls, data \in Docs : JsonSettles(c, data)

SpecService == InitService /\ [][NextService]_vars

Next ==
    \/ \E e \in Events, i \in 1..MaxTracks : TrackClicked(e, i) /\ UNCHANGED prev
    \/ \E e \in Events, i \in 1..MaxTracks :
          HandleContextMenuEvent(e, i) /\ UNCHANGED prev
    \/ HandleOutsideClick /\ UNCHANGED prev
    \/ \E i, j \in 1..MaxTracks : RequestTrackReorder(i, j) /\ UNCHANGED prev
    \/ \E t \in Tools : SelectTool(t) /\ UNCHANGED prev

Spec == Init /\ [][Next]_vars

\* Track clicks alone, each remembering the click before it.
NextClicks ==
    \E e \in Events, i \in 1..MaxTracks : TrackClicked(e, i) /\ prev' = last

SpecClicks == Init /\ [][NextClicks]_vars

NextNavigator ==
    \/ \E a \in Factors, f \in FocusPoints : Zoom(a, f) /\ UNCHANGED navPrev
    \/ \E b, c \in Bases : SetNewView(b, c) /\ UNCHANGED navPrev
    \/ \E t \in TargetSizes : ZoomSliderDragged(t) /\ UNCHANGED navPrev
    \/ \E n \in NavContexts : ComponentWillReceiveProps(n) /\ UNCHANGED navPrev

SpecNavigator == InitNavigator /\ [][NextNavigator]_vars

\* Zooms alone, each remembering the zoom before it.
NextZoom ==
    \E a \in Factors, f \in FocusPoints : Zoom(a, f) /\ navPrev' = navLast

SpecZoom == InitNavigator /\ [][NextZoom]_vars

-----------------------------------------------------------------------------
(* Claims about GenomeModelService *)

Resolved(c) == c \in 1..Len(calls) /\ calls[c].pc = "resolved"

\* Position in the console log of call c's line msg.
LogPos(msg, c) == CHOOSE i \in 1..Len(log) : log[i].msg = msg /\ log[i].call = c

\* Call c missed the cache, fetched, and ran to its return.
FetchedAndResolved(c) == Resolved(c) /\ calls[c].fetched

\* Calls c1 and c2 were both started before either of them completed.
Overlapped(c1, c2) ==
    /\ LogPos("fetching chr", c1) < LogPos("done fetching", c2)
    /\ LogPos("fetching chr", c2) < LogPos("done fetching", c1)

\* The call whose "done fetching" line is the last one for chr.
LastDone(chr) ==
    LET done == {i \in 1..Len(log) : log[i].msg = "done fetching" /\ log[i].chr = chr}
    IN  log[MaxOf(done)].call

\* C1: once a loadChromosomeAsync(id) call has resolved with object D, every
\* later loadChromosome(id) returns that identical object D, whatever the
\* interleaving of the calls.
C1_LoadReturnsResolvedObject ==
    \A c \in 1..Len(calls) :
        Resolved(c) =>
            LET r == loadChromosome(loadedChromosomes, calls[c].chr)
            IN  ~r.threw /\ r.details.ref = calls[c].result.ref

\* No load of call c's chromosome had completed when call c was made.
StartedUncached(c) ==
    \A i \in 1..calls[c].startedAt :
        ~(log[i].msg = "done fetching" /\ log[i].chr = calls[c].chr)

\* C2: two loadChromosomeAsync calls for the same uncached id that are both
\* started before either completes both miss the cache, each fetches, each
\* writes an entry of its own, and the cache is left with the entry of the
\* call that completed last.
C2_LastWriteWins ==
    \A c1, c2 \in 1..Len(calls) :
        (c1 # c2 /\ calls[c1].chr = calls[c2].chr
            /\ StartedUncached(c1) /\ StartedUncached(c2)) =>
            LET chr == calls[c1].chr
            IN  /\ calls[c1].fetched /\ calls[c2].fetched
                /\ LogPos("fetching chr", c1) # LogPos("fetching chr", c2)
                /\ (Resolved(c1) /\ Resolved(c2)) =>
                      /\ Overlapped(c1, c2)
                      /\ calls[c1].result.ref # calls[c2].result.ref
                      /\ loadedChromosomes[chr].ref = calls[LastDone(chr)].result.ref
                      /\ LastDone(chr) \in
                            {c \in 1..Len(calls) : FetchedAndResolved(c)}

C2_Witness ==
    \E c1, c2 \in 1..Len(calls) :
        /\ c1 < c2 /\ calls[c1].chr = calls[c2].chr
        /\ FetchedAndResolved(c1) /\ FetchedAndResolved(c2)
        /\ LastDone(calls[c1].chr) = c1

HasIffLoaded ==
    /\ \A chr \in Chrs :
          hasChromosome(loadedChromosomes, chr)
              <=> \E c \in 1..Len(calls) : calls[c].chr = chr /\ Resolved(c)
    /\ (ret.op = "hasChromosome" /\ ret.has) =>
          \E c \in 1..Len(calls) : calls[c].chr = ret.chr /\ Resolved(c)

HasStaysTrue ==
    \A chr \in Chrs :
        hasChromosome(loadedChromosomes, chr) => hasChromosome(loadedChromosomes', chr)

\* C3: hasChromosome(id) is true exactly when some loadChromosomeAsync(id)
\* call has completed successfully (so it is false before any fetch), and
\* once true it never becomes false again.
C3_HasChromosomeIffLoaded == [] HasIffLoaded /\ [][HasStaysTrue]_vars

C3_Witness ==
    /\ ret.op = "hasChromosome" /\ ret.has
    /\ \E c \in 1..Len(calls) : calls[c].chr = ret.chr /\ FetchedAndResolved(c)
    /\ \E c \in 1..Len(calls) : calls[c].chr = ret.chr /\ calls[c].pc = "rejected"
    /\ \E chr \in Chrs : ~hasChromosome(loadedChromosomes, chr)

\* The step is a loadChromosome(chr) call that returned or threw.
LoadChromosomeStep == ret' # ret /\ ret'.op = "loadChromosome"

\* C12: loadChromosome(id) for an id with no cache entry fails with an error
\* that carries the id, returns no value and leaves the cache as it is (no
\* entry made, no fetch started); for an id with an entry it returns that
\* entry without error.
C12_LoadChromosomeThrowsOrReturns ==
    [][LoadChromosomeStep =>
          /\ IF loadedChromosomes[ret'.chr] = Undefined
             THEN /\ ret'.threw
                  /\ ret'.details = Undefined
                  /\ \E i \in 1..Len(ret'.error) : ret'.error[i] = ret'.chr
             ELSE /\ ~ret'.threw
                  /\ ret'.details = loadedChromosomes[ret'.chr]
                  /\ ret'.error = << >>
          /\ loadedChromosomes' = loadedChromosomes
          /\ calls' = calls
          /\ log' = log
          /\ nextRef' = nextRef]_vars

C12_Witness ==
    /\ ret.op = "loadChromosome" /\ ret.threw
    /\ loadedChromosomes[ret.chr] = Undefined
    /\ \E c \in 1..Len(calls) : calls[c].chr = ret.chr /\ calls[c].pc = "json"
    /\ \E chr \in Chrs : loadedChromosomes[chr] # Undefined

\* Call c ends rejected in the step.
Rejects(c) ==
    /\ c \in 1..Len(calls)
    /\ calls[c].pc \in {"fetch", "json"}
    /\ calls'[c].pc = "rejected"

\* C15: a loadChromosomeAsync(id) call whose fetch or JSON decoding fails
\* ends rejected and writes nothing to the cache, so hasChromosome keeps its
\* value for every id; and a later loadChromosomeAsync(id) on an id that is
\* still uncached starts a new fetch.
C15_FailedLoadWritesNothing ==
    [][/\ (\E c \in 1..Len(calls) : Rejects(c)) =>
              /\ loadedChromosomes' = loadedChromosomes
              /\ \A chr \in Chrs : hasChromosome(loadedChromosomes', chr)
                                      = hasChromosome(loadedChromosomes, chr)
              /\ nextRef' = nextRef
       /\ (Len(calls') > Len(calls)
              /\ \E c \in 1..Len(calls) :
                    calls[c].chr = calls'[Len(calls')].chr /\ calls[c].pc = "rejected"
              /\ ~hasChromosome(loadedChromosomes, calls'[Len(calls')].chr)) =>
              /\ calls'[Len(calls')].pc = "fetch"
              /\ calls'[Len(calls')].fetched
              /\ Len(log') = Len(log) + 1]_vars

C15_Witness ==
    \E c1, c2 \in 1..Len(calls) :
        /\ c1 < c2 /\ calls[c1].chr = calls[c2].chr
        /\ calls[c1].pc = "rejected" /\ calls[c1].startedAt < calls[c2].startedAt
        /\ calls[c2].pc = "fetch"
        /\ ~hasChromosome(loadedChromosomes, calls[c1].chr)
        /\ \E chr \in Chrs : hasChromosome(loadedChromosomes, chr)

-----------------------------------------------------------------------------
(* Claims about TrackContainer *)

Toggled(ts, i) == [ts EXCEPT ![i].isSelected = ~ts[i].isSelected]

SelectedIds(ts) == {ts[j].id : j \in {k \in 1..Len(ts) : ts[k].isSelected}}

\* The last handler run was a control-left-click on a track.
CtrlLeftClick(l) ==
    l.handler = "trackClicked" /\ l.event.button = LEFT /\ l.event.ctrlKey

\* C4: trackClicked with the left button and the control key on track i hands
\* onTracksChanged a collection of the same length and order in which track i
\* has its flag negated and every other track is the same descriptor; any
\* other click requests no change.
C4_CtrlClickTogglesOne ==
    last.handler = "trackClicked" =>
        IF last.event.button = LEFT /\ last.event.ctrlKey
        THEN /\ last.called
             /\ Len(last.arg) = Len(last.before)
             /\ \A j \in 1..Len(last.arg) :
                   IF j = last.index
                   THEN /\ last.arg[j].id = last.before[j].id
                        /\ last.arg[j].isSelected = ~last.before[j].isSelected
                   ELSE /\ last.argFrom[j] = j
                        /\ last.arg[j] = last.before[j]
             /\ tracks = last.arg
        ELSE ~last.called /\ tracks = last.before

C4_Witness ==
    /\ CtrlLeftClick(last)
    /\ Len(last.before) = MaxTracks
    /\ last.before[last.index].isSelected
    /\ \E j \in 1..Len(last.before) : j # last.index /\ last.before[j].isSelected
    /\ last.called

\* C5: after handleOutsideClick no track of the collection is selected, and
\* the collection holds the same tracks in the same order.
C5_OutsideClickDeselectsAll ==
    last.handler = "handleOutsideClick" =>
        /\ Len(tracks) = Len(last.before)
        /\ \A j \in 1..Len(tracks) :
              tracks[j].id = last.before[j].id /\ ~tracks[j].isSelected

C5_Witness ==
    /\ last.handler = "handleOutsideClick"
    /\ Len(last.before) >= 2
    /\ \E j, k \in 1..Len(last.before) :
          j # k /\ last.before[j].isSelected /\ last.before[k].isSelected
    /\ last.before[1].id # 1
    /\ last.called

\* C6: a context-menu event with the control key held on track i, whatever
\* mouse button it carries, produces the same collection as a
\* control-left-click on track i.
C6_CtrlContextMenuIsToggle ==
    (last.handler = "handleContextMenuEvent" /\ last.event.ctrlKey) =>
        LET click == trackClicked(Render(last.before),
                                  [button |-> LEFT, ctrlKey |-> TRUE], last.index)
        IN  /\ last.called
            /\ last.arg = Values(click.heap, click.arg)
            /\ tracks = Toggled(last.before, last.index)

\* C7: a context-menu event without the control key on a track that is not
\* selected leaves that track selected and every other track deselected; on a
\* track that is selected it leaves the collection as it is and does not call
\* onTracksChanged.
C7_ContextMenuSelectsOnlyClicked ==
    (last.handler = "handleContextMenuEvent" /\ ~last.event.ctrlKey) =>
        IF ~last.before[last.index].isSelected
        THEN /\ last.called
             /\ Len(last.arg) = Len(last.before)
             /\ \A j \in 1..Len(last.arg) :
                   /\ last.arg[j].id = last.before[j].id
                   /\ last.arg[j].isSelected = (j = last.index)
             /\ tracks = last.arg
        ELSE ~last.called /\ tracks = last.before

C7_Witness ==
    /\ last.handler = "handleContextMenuEvent" /\ ~last.event.ctrlKey
    /\ ~last.before[last.index].isSelected
    /\ \E j \in 1..Len(last.before) : last.before[j].isSelected
    /\ last.called

\* C8: toggling the selection of index i twice in succession, the second
\* toggle on the collection the first produced, gives back the original
\* collection: the same ids in the same order with the same flags.
C8_ToggleTwiceRestores ==
    (CtrlLeftClick(prev) /\ CtrlLeftClick(last) /\ prev.index = last.index) =>
        /\ last.before = prev.arg
        /\ last.called
        /\ last.arg = prev.before
        /\ tracks = prev.before

C8_Witness ==
    /\ CtrlLeftClick(prev) /\ CtrlLeftClick(last) /\ prev.index = last.index
    /\ Len(tracks) = MaxTracks
    /\ prev.before[prev.index].isSelected
    /\ last.called

\* C9: requestTrackReorder(fromIndex, toIndex) hands over a permutation of the
\* collection: every descriptor exactly once and with its own flag, the moved
\* track at toIndex, the others in their old relative order; so the set of
\* selected ids is what it was.
C9_ReorderIsPermutation ==
    last.handler = "requestTrackReorder" =>
        LET n == Len(last.before)
            others == (1..n) \ {last.toIndex}
        IN  /\ last.called
            /\ Len(last.arg) = n
            /\ {last.argFrom[j] : j \in 1..n} = 1..n
            /\ \A j \in 1..n : last.arg[j] = last.before[last.argFrom[j]]
            /\ last.argFrom[last.toIndex] = last.index
            /\ \A j, k \in others : j < k => last.argFrom[j] < last.argFrom[k]
            /\ tracks = last.arg
            /\ SelectedIds(tracks) = SelectedIds(last.before)

C9_Witness ==
    /\ last.handler = "requestTrackReorder"
    /\ Len(last.before) = MaxTracks
    /\ last.index = 1 /\ last.toIndex = MaxTracks
    /\ last.before[1].isSelected /\ ~last.before[2].isSelected
    /\ last.before[1].id # 1

\* The position in ts of the track with the id of t.
PosOfId(ts, t) == CHOOSE k \in 1..Len(ts) : ts[k].id = t.id

\* C10: no handler changes the props.tracks array or a descriptor in it: a
\* changed flag is on a clone in a new array, and a descriptor whose flag does
\* not change is handed on as the same object.
C10_HandlersDoNotMutate ==
    last.handler \in {"trackClicked", "handleContextMenuEvent",
                      "handleOutsideClick", "requestTrackReorder"} =>
        /\ last.intact
        /\ last.called =>
              /\ last.newArray
              /\ \A j \in 1..Len(last.arg) :
                    LET k == PosOfId(last.before, last.arg[j])
                    IN  IF last.arg[j].isSelected # last.before[k].isSelected
                        THEN last.argFrom[j] = 0
                        ELSE last.argFrom[j] = k
        /\ ~last.called => tracks = last.before

C10_Witness ==
    /\ last.handler = "handleContextMenuEvent"
    /\ last.called
    /\ \E j, k \in 1..Len(last.arg) : last.argFrom[j] = 0 /\ last.argFrom[k] # 0
    /\ \E j \in 1..Len(last.arg) : j # last.index /\ last.argFrom[j] = 0

ToolInvariant ==
    /\ selectedTool \in Tools
    /\ last.handler = "none" => selectedTool = DRAG
    /\ last.handler = "selectTool" =>
          ~last.called /\ tracks = last.before /\ contextMenuEvent = "null"

ToolStep ==
    selectedTool' # selectedTool =>
        /\ tracks' = tracks
        /\ contextMenuEvent' = contextMenuEvent
        /\ last'.handler = "selectTool" /\ ~last'.called

\* C11: exactly one tool out of DRAG, ZOOM, REORDER is selected in every
\* state, DRAG at first, and pressing a tool button changes selectedTool
\* alone: no onTracksChanged call, the tracks and contextMenuEvent as before.
C11_ToolSwitchIsLocal == [] ToolInvariant /\ [][ToolStep]_vars

C11_Witness ==
    /\ last.handler = "selectTool"
    /\ selectedTool = ZOOM
    /\ Len(tracks) >= 2
    /\ \E j \in 1..Len(tracks) : tracks[j].isSelected
    /\ tracks[1].id # 1

-----------------------------------------------------------------------------
(* Claims about GenomeNavigator *)

MinWidth == Whole(MIN_VIEW_REGION_SIZE)

\* The region the call recorded in l asked for is narrower than the minimum.
TooNarrow(l) == RLess(getWidth(l.asked), MinWidth)

\* The last two calls were zoom(f) and then zoom(1/f).
ZoomAndBack ==
    /\ navPrev.op = "zoom" /\ navLast.op = "zoom"
    /\ RMul(navPrev.args[1], navLast.args[1]) = Whole(1)

\* C13: zoom(f) followed by zoom(1/f) leaves the view region with its
\* original width, unless one of the two zooms asked for a region narrower
\* than MIN_VIEW_REGION_SIZE.
C13_ZoomAndBackRestoresWidth ==
    (ZoomAndBack /\ ~TooNarrow(navPrev) /\ ~TooNarrow(navLast)) =>
        getWidth(viewRegion) = getWidth(navPrev.before)

C13_Witness ==
    /\ ZoomAndBack /\ ~TooNarrow(navPrev) /\ ~TooNarrow(navLast)
    /\ navLast.args[1] = Rat(1, 2)
    /\ getWidth(viewRegion) = MinWidth
    /\ getWidth(navLast.before) # MinWidth

\* C14: from a view region at least MIN_VIEW_REGION_SIZE wide, the view
\* region stays that wide under zoom, setNewView and zoomSliderDragged; a
\* call that asks for a narrower region leaves the stored region as it was,
\* and any other call stores the region asked for.
C14_NarrowRequestsDiscarded ==
    /\ ~RLess(getWidth(viewRegion), MinWidth)
    /\ navLast.op \in {"zoom", "setNewView", "zoomSliderDragged"} =>
          IF TooNarrow(navLast)
          THEN viewRegion = navLast.before
          ELSE viewRegion = navLast.asked

C14_Witness ==
    /\ navLast.op = "zoomSliderDragged"
    /\ TooNarrow(navLast)
    /\ viewRegion = navLast.before
    /\ getWidth(viewRegion) # MinWidth
    /\ viewRegion.start[2] # 1

====
